---- MODULE Spec2Model ----
(***************************************************************************)
(* Game-master agent (src/main.py): the chat-start handler start() and the *)
(* message handler main(), with the two tool functions roll_dice and       *)
(* generate_event.                                                         *)
(*                                                                         *)
(* Text is a sequence of pieces (strings).  A player message is a sequence *)
(* of one-character pieces, so that lower-casing and the substring test    *)
(* `word in user_input` are computed on characters.  The literal parts of  *)
(* the f-string templates and the event descriptions are single pieces.    *)
(*                                                                         *)
(* Python lists are objects: the model keeps a heap of lists (lists) and   *)
(* the session and the handlers hold references (indices) into it.         *)
(* Each invocation of main() is a coroutine; it is cut at its await points *)
(* and several invocations of one session may be suspended at once.        *)
(***************************************************************************)
EXTENDS Integers, Sequences, FiniteSets, TLC

\* ------------------------------------------------------------------ bounds
\* messages one session sends
MaxMsgs == 2
\* events one run of the generation service's stream produces
MaxEvents == 2
\* messages each session sends when two sessions run side by side
MaxMsgsEach == 1
\* largest number of sides roll_dice is called with on its own
MaxSides == 21

\* ------------------------------------------------------------------ text
\* the upper-case letters and their lower-case forms
UpperToLower ==
  [ A |-> "a", B |-> "b", C |-> "c", D |-> "d", E |-> "e", F |-> "f", G |-> "g",
    H |-> "h", I |-> "i", J |-> "j", K |-> "k", L |-> "l", M |-> "m", N |-> "n",
    O |-> "o", P |-> "p", Q |-> "q", R |-> "r", S |-> "s", T |-> "t", U |-> "u",
    V |-> "v", W |-> "w", X |-> "x", Y |-> "y", Z |-> "z" ]

LowerChar(c) == IF c \in DOMAIN UpperToLower THEN UpperToLower[c] ELSE c

\* str.lower()
Lower(s) == [i \in 1..Len(s) |-> LowerChar(s[i])]

\* `word in s` on strings: word occurs in s as a contiguous substring
Contains(s, word) ==
  \E i \in 1..(Len(s) - Len(word) + 1) : \A k \in 1..Len(word) : s[i + k - 1] = word[k]

\* any(word in s for word in words)
AnyWordIn(words, s) == \E i \in 1..Len(words) : Contains(s, words[i])

DigitChar == <<"0", "1", "2", "3", "4", "5", "6", "7", "8", "9">>

RECURSIVE Str(_)
\* str(n) of a non-negative integer: its decimal digits
Str(n) == IF n < 10 THEN <<DigitChar[n + 1]>>
          ELSE Str(n \div 10) \o <<DigitChar[(n % 10) + 1]>>

\* ------------------------------------------------------------------ words
attack    == <<"a", "t", "t", "a", "c", "k">>
defend    == <<"d", "e", "f", "e", "n", "d">>
monster   == <<"m", "o", "n", "s", "t", "e", "r">>
fight     == <<"f", "i", "g", "h", "t">>
battle    == <<"b", "a", "t", "t", "l", "e">>
item      == <<"i", "t", "e", "m">>
chest     == <<"c", "h", "e", "s", "t">>
reward    == <<"r", "e", "w", "a", "r", "d">>
loot      == <<"l", "o", "o", "t">>
inventory == <<"i", "n", "v", "e", "n", "t", "o", "r", "y">>
forest    == <<"f", "o", "r", "e", "s", "t">>
dungeon   == <<"d", "u", "n", "g", "e", "o", "n">>
village   == <<"v", "i", "l", "l", "a", "g", "e">>

CombatWords == <<attack, defend, monster, fight, battle>>
ItemWords   == <<item, chest, reward, loot, inventory>>
Areas       == <<forest, dungeon, village>>

\* Python's None, and the empty string: both falsy
None == <<>>

\* ------------------------------------------------------------------ tools
DefaultSides == 20

\* roll_dice counting from 0, as random.randrange(sides) does
roll_dice_from0(sides) == 0..(sides - 1)

\* random.randint(1, sides): the set of possible results
roll_dice(sides) == 1..sides

ForestEvents ==
  { "You hear rustling in the bushes. A goblin appears!",
    "You find an ancient tree with glowing runes.",
    "A traveling merchant offers you a mysterious potion." }
DungeonEvents ==
  { "A trap triggers beneath your feet!",
    "A skeleton warrior blocks your path.",
    "You discover a chest filled with gold... or is it a mimic?" }
VillageEvents ==
  { "A child runs up to you, asking for help.",
    "The blacksmith offers to upgrade your weapon.",
    "You overhear talk of a dragon nearby." }
NothingEvents == { "Nothing unusual happens..." }

\* events.get(key, ["Nothing unusual happens..."])
EventsGet(key) ==
  IF key = forest THEN ForestEvents
  ELSE IF key = dungeon THEN DungeonEvents
  ELSE IF key = village THEN VillageEvents
  ELSE NothingEvents

\* generate_event looking the key up as given
generate_event_as_given(context) == EventsGet(context)

\* random.choice(events.get(context.lower(), ...)): the set of possible results
generate_event(context) == EventsGet(Lower(context))

\* ------------------------------------------------------------------ agents
NarratorAgent == "NarratorAgent"
MonsterAgent  == "MonsterAgent"
ItemAgent     == "ItemAgent"
Agents == {NarratorAgent, MonsterAgent, ItemAgent}

\* Route with the item keywords tested before the combat keywords
RouteItemFirst(user_input) ==
  IF AnyWordIn(ItemWords, user_input) THEN ItemAgent
  ELSE IF AnyWordIn(CombatWords, user_input) THEN MonsterAgent
  ELSE NarratorAgent

\* the agent hand-off of main(): if / elif / else on the lower-cased message
Route(user_input) ==
  IF AnyWordIn(CombatWords, user_input) THEN MonsterAgent
  ELSE IF AnyWordIn(ItemWords, user_input) THEN ItemAgent
  ELSE NarratorAgent

\* FindContext taking the area that occurs first in the message
FindContextByPosition(user_input) ==
  LET at(i) == {k \in 1..Len(user_input) :
                  /\ k + Len(Areas[i]) - 1 <= Len(user_input)
                  /\ SubSeq(user_input, k, k + Len(Areas[i]) - 1) = Areas[i]}
      hits == {i \in 1..Len(Areas) : at(i) # {}}
  IN  IF hits = {} THEN None
      ELSE Areas[CHOOSE i \in hits :
                   \E k \in at(i) : \A j \in hits : \A l \in at(j) : k <= l]

\* for area in [...]: if area in user_input: context = area; break
FindContext(user_input) ==
  LET hits == {i \in 1..Len(Areas) : Contains(user_input, Areas[i])}
  IN  IF hits = {} THEN None
      ELSE Areas[CHOOSE i \in hits : \A j \in hits : i <= j]

\* f"... You discover:\n\n{event}"
DiscoverText(event) == <<"You discover:\n\n", event>>

CriticalHit == "Critical Hit!"
WeakStrike  == "Weak strike..."
NormalHit   == "You strike the enemy."

\* Outcome with the critical band starting at 15
OutcomeFrom15(roll) ==
  IF roll >= 15 THEN CriticalHit ELSE IF roll < 5 THEN WeakStrike ELSE NormalHit

\* the conditional expression that picks the outcome text of a roll
Outcome(roll) ==
  IF roll > 15 THEN CriticalHit ELSE IF roll < 5 THEN WeakStrike ELSE NormalHit

\* f"You rolled a {roll}.\n{outcome}"
RollText(roll) == <<"You rolled a ">> \o Str(roll) \o <<".\n", Outcome(roll)>>

\* the marker that opens the error text (the source's marker has a cross-mark
\* emoji before it, as the other templates have an emoji of their own)
ErrorMarker == "Error: "

\* f"<marker>{str(e)}"
ErrorText(e) == <<ErrorMarker, e>>

UserTurn(content)      == [role |-> "user", content |-> content]
AssistantTurn(content) == [role |-> "assistant", content |-> content]

\* ------------------------------------------------------------------ inputs
Sessions == {"s1", "s2"}
\* coroutines of main() one session can have in flight
HandlerSlots == <<"h1", "h2">>
Handlers == {HandlerSlots[i] : i \in DOMAIN HandlerSlots}

Fight_loot_forest   == <<"F", "i", "g", "h", "t", " ", "l", "o", "o", "t", " ",
                         "f", "o", "r", "e", "s", "t">>
Loot_Village_forest == <<"L", "o", "o", "t", " ", "V", "i", "l", "l", "a", "g", "e",
                         " ", "f", "o", "r", "e", "s", "t">>
open_chest          == <<"o", "p", "e", "n", " ", "c", "h", "e", "s", "t">>
explore_the_dungeon == <<"e", "x", "p", "l", "o", "r", "e", " ", "t", "h", "e", " ",
                         "d", "u", "n", "g", "e", "o", "n">>

\* the player messages the environment sends
Messages ==
  { Fight_loot_forest, Loot_Village_forest, open_chest, explore_the_dungeon }

\* the text deltas of the generation service's answer, in the order it
\* produces them
Deltas == <<"Once ", "upon ", "a ", "time">>

\* the events result.stream_events() can produce after n deltas: the raw
\* response event that carries the next delta, a raw response event that
\* carries none, and an event of another type
StreamEvents(n) ==
  { [type |-> "raw_response_event", has_delta |-> TRUE, delta |-> Deltas[n + 1]],
    [type |-> "raw_response_event", has_delta |-> FALSE, delta |-> ""],
    [type |-> "run_item_stream_event", has_delta |-> TRUE, delta |-> "item"] }

\* str(e) of the exceptions the generation service raises
Errors == {"service unavailable"}

MaxLists == Cardinality(Sessions) * (MaxMsgs + 1)
ListIds == 1..MaxLists

\* ------------------------------------------------------------------ state
VARIABLES
  lists,          \* the heap of Python lists: list id -> sequence of Turns
  nextList,       \* the next list id to allocate
  chat_history,   \* cl.user_session "chat_history" of a session: a list id, 0 = unset
  current_agent,  \* cl.user_session "current_agent" of a session
  sent,           \* number of messages a session has sent
  pc,             \* where a coroutine of main() stands, or how its last run ended
  message,        \* message.content of the inbound message
  history,        \* the local `history`: a list id
  user_input,     \* the local `user_input`
  agent,          \* the local `agent`
  msg,            \* msg.content of the outbound message
  roll,           \* the local `roll` (0 = not rolled)
  context,        \* the local `context`
  submitted,      \* the input and agent given to Runner.run_streamed
  nevents,        \* number of events the stream has produced so far
  produced,       \* the deltas the stream has produced so far
  replies,        \* assistant Turns this invocation has appended
  answered,       \* invocations of a session that ended Completed
  overlapped,     \* two invocations of a session were ever in flight together
  tool,           \* the tool function called on its own ("" = none)
  tool_context,   \* the argument `context` of generate_event
  tool_sides,     \* the argument `sides` of roll_dice
  tool_result     \* <<>> before the call returns, <<value>> after

sessionVars == <<chat_history, current_agent, sent, answered, overlapped>>
localVars == <<pc, message, history, user_input, agent, msg, roll, context,
               submitted, nevents, produced, replies>>
toolVars == <<tool, tool_context, tool_sides, tool_result>>
vars == <<lists, nextList, sessionVars, localVars, toolVars>>

NoCall == [agent |-> "", input |-> <<>>]

Free(s, h)   == pc[s][h] \in {"Idle", "Completed", "Failed"}
\* a new coroutine takes the first slot that is free
FirstFree(s, h) ==
  \E i \in DOMAIN HandlerSlots :
    /\ HandlerSlots[i] = h
    /\ Free(s, h)
    /\ \A j \in 1..(i - 1) : ~Free(s, HandlerSlots[j])
Active(s, h) == ~Free(s, h)

\* the Conversation the session holds
Conversation(s) == IF chat_history[s] = 0 THEN <<>> ELSE lists[chat_history[s]]

\* no session started, no handler running
SessionsInit ==
  /\ lists = [i \in ListIds |-> <<>>]
  /\ nextList = 1
  /\ chat_history = [s \in Sessions |-> 0]
  /\ current_agent = [s \in Sessions |-> ""]
  /\ sent = [s \in Sessions |-> 0]
  /\ answered = [s \in Sessions |-> 0]
  /\ overlapped = [s \in Sessions |-> FALSE]
  /\ pc = [s \in Sessions |-> [h \in Handlers |-> "Idle"]]
  /\ message = [s \in Sessions |-> [h \in Handlers |-> <<>>]]
  /\ history = [s \in Sessions |-> [h \in Handlers |-> 0]]
  /\ user_input = [s \in Sessions |-> [h \in Handlers |-> <<>>]]
  /\ agent = [s \in Sessions |-> [h \in Handlers |-> ""]]
  /\ msg = [s \in Sessions |-> [h \in Handlers |-> <<>>]]
  /\ roll = [s \in Sessions |-> [h \in Handlers |-> 0]]
  /\ context = [s \in Sessions |-> [h \in Handlers |-> None]]
  /\ submitted = [s \in Sessions |-> [h \in Handlers |-> NoCall]]
  /\ nevents = [s \in Sessions |-> [h \in Handlers |-> 0]]
  /\ produced = [s \in Sessions |-> [h \in Handlers |-> <<>>]]
  /\ replies = [s \in Sessions |-> [h \in Handlers |-> 0]]

\* no tool function called on its own
NoToolCall ==
  /\ tool = ""
  /\ tool_context = <<>>
  /\ tool_sides = 0
  /\ tool_result = <<>>

Init == SessionsInit /\ NoToolCall

\* ------------------------------------------------------------------ start()
\* Start with the selected agent kept in one place for all sessions
StartGlobalAgent(s) ==
  /\ chat_history[s] = 0
  /\ lists' = [lists EXCEPT ![nextList] = <<>>]
  /\ chat_history' = [chat_history EXCEPT ![s] = nextList]
  /\ nextList' = nextList + 1
  /\ current_agent' = [t \in Sessions |-> NarratorAgent]
  /\ UNCHANGED <<sent, answered, overlapped, localVars, toolVars>>

\* on_chat_start: a new empty list is stored as chat_history and the Narrator
\* as current_agent (the welcome message is output only)
Start(s) ==
  /\ chat_history[s] = 0
  /\ lists' = [lists EXCEPT ![nextList] = <<>>]
  /\ chat_history' = [chat_history EXCEPT ![s] = nextList]
  /\ nextList' = nextList + 1
  /\ current_agent' = [current_agent EXCEPT ![s] = NarratorAgent]
  /\ UNCHANGED <<sent, answered, overlapped, localVars, toolVars>>

\* ------------------------------------------------------------------ main()
\* `cl.user_session.get("chat_history") or []`: the stored list when it is
\* truthy (non-empty), else a new list
StoredIsFalsy(s) == lists[chat_history[s]] = <<>>

\* main() up to `await msg.send()`: the history is fetched, the player's Turn
\* appended, the agent chosen and stored, the empty outbound message created
MainBegin(s, h, m) ==
  /\ chat_history[s] # 0
  /\ FirstFree(s, h)
  /\ sent[s] < MaxMsgs
  /\ LET hid == IF StoredIsFalsy(s) THEN nextList ELSE chat_history[s]
     IN  /\ lists' = [lists EXCEPT ![hid] = Append(@, UserTurn(m))]
         /\ nextList' = IF StoredIsFalsy(s) THEN nextList + 1 ELSE nextList
         /\ history' = [history EXCEPT ![s][h] = hid]
  /\ message' = [message EXCEPT ![s][h] = m]
  /\ user_input' = [user_input EXCEPT ![s][h] = Lower(m)]
  /\ agent' = [agent EXCEPT ![s][h] = Route(user_input'[s][h])]
  /\ current_agent' = [current_agent EXCEPT ![s] = agent'[s][h]]
  /\ msg' = [msg EXCEPT ![s][h] = <<>>]
  /\ roll' = [roll EXCEPT ![s][h] = 0]
  /\ context' = [context EXCEPT ![s][h] = None]
  /\ submitted' = [submitted EXCEPT ![s][h] = NoCall]
  /\ nevents' = [nevents EXCEPT ![s][h] = 0]
  /\ produced' = [produced EXCEPT ![s][h] = <<>>]
  /\ replies' = [replies EXCEPT ![s][h] = 0]
  /\ pc' = [pc EXCEPT ![s][h] = "Dispatched"]
  /\ sent' = [sent EXCEPT ![s] = @ + 1]
  /\ overlapped' = [overlapped EXCEPT ![s] = @ \/ \E g \in Handlers : Active(s, g)]
  /\ UNCHANGED <<chat_history, answered, toolVars>>

\* the handler returns: the locals of its frame are gone; the inbound message
\* and the outbound message (message, msg) belong to the framework and stay
Return(s, h) ==
  /\ history' = [history EXCEPT ![s][h] = 0]
  /\ user_input' = [user_input EXCEPT ![s][h] = <<>>]
  /\ agent' = [agent EXCEPT ![s][h] = ""]
  /\ roll' = [roll EXCEPT ![s][h] = 0]
  /\ context' = [context EXCEPT ![s][h] = None]
  /\ submitted' = [submitted EXCEPT ![s][h] = NoCall]
  /\ nevents' = [nevents EXCEPT ![s][h] = 0]
  /\ produced' = [produced EXCEPT ![s][h] = <<>>]

\* Reply without cl.user_session.set("chat_history", history)
ReplyNoSet(s, h) ==
  /\ lists' = [lists EXCEPT ![history[s][h]] = Append(@, AssistantTurn(msg[s][h]))]
  /\ UNCHANGED chat_history
  /\ replies' = [replies EXCEPT ![s][h] = @ + 1]
  /\ answered' = [answered EXCEPT ![s] = @ + 1]

\* history.append({"role": "assistant", "content": msg.content});
\* cl.user_session.set("chat_history", history)
Reply(s, h) ==
  /\ lists' = [lists EXCEPT ![history[s][h]] = Append(@, AssistantTurn(msg[s][h]))]
  /\ chat_history' = [chat_history EXCEPT ![s] = history[s][h]]
  /\ replies' = [replies EXCEPT ![s][h] = @ + 1]
  /\ answered' = [answered EXCEPT ![s] = @ + 1]

\* DispatchItem taken whenever the message names a location, whatever the agent
DispatchItemAnyAgent(s, h) ==
  /\ pc[s][h] = "Dispatched"
  /\ FindContext(user_input[s][h]) # None
  /\ context' = [context EXCEPT ![s][h] = FindContext(user_input[s][h])]
  /\ \E event \in generate_event(FindContext(user_input[s][h])) :
       msg' = [msg EXCEPT ![s][h] = DiscoverText(event)]
  /\ pc' = [pc EXCEPT ![s][h] = "ToolPath"]
  /\ UNCHANGED <<lists, nextList, sessionVars, message, history, user_input,
                 agent, roll, submitted, nevents, produced, replies,
                 toolVars>>

\* the Item branch with a location found: generate_event, then
\* `await msg.update(...)`
DispatchItem(s, h) ==
  /\ pc[s][h] = "Dispatched"
  /\ agent[s][h] = ItemAgent
  /\ FindContext(user_input[s][h]) # None
  /\ context' = [context EXCEPT ![s][h] = FindContext(user_input[s][h])]
  /\ \E event \in generate_event(FindContext(user_input[s][h])) :
       msg' = [msg EXCEPT ![s][h] = DiscoverText(event)]
  /\ pc' = [pc EXCEPT ![s][h] = "ToolPath"]
  /\ UNCHANGED <<lists, nextList, sessionVars, message, history, user_input,
                 agent, roll, submitted, nevents, produced, replies,
                 toolVars>>

\* DispatchMonster with the streamed run started before the dice are rolled
DispatchMonsterCallsService(s, h) ==
  /\ pc[s][h] = "Dispatched"
  /\ ~(agent[s][h] = ItemAgent /\ FindContext(user_input[s][h]) # None)
  /\ agent[s][h] = MonsterAgent
  /\ submitted' = [submitted EXCEPT ![s][h] =
                     [agent |-> agent[s][h], input |-> lists[history[s][h]]]]
  /\ \E r \in roll_dice(DefaultSides) :
       /\ roll' = [roll EXCEPT ![s][h] = r]
       /\ msg' = [msg EXCEPT ![s][h] = RollText(r)]
  /\ pc' = [pc EXCEPT ![s][h] = "ToolPath"]
  /\ UNCHANGED <<lists, nextList, sessionVars, message, history, user_input,
                 agent, context, nevents, produced, replies,
                 toolVars>>

\* the Monster branch: roll_dice(), then `await msg.update(...)`
DispatchMonster(s, h) ==
  /\ pc[s][h] = "Dispatched"
  /\ ~(agent[s][h] = ItemAgent /\ FindContext(user_input[s][h]) # None)
  /\ agent[s][h] = MonsterAgent
  /\ \E r \in roll_dice(DefaultSides) :
       /\ roll' = [roll EXCEPT ![s][h] = r]
       /\ msg' = [msg EXCEPT ![s][h] = RollText(r)]
  /\ pc' = [pc EXCEPT ![s][h] = "ToolPath"]
  /\ UNCHANGED <<lists, nextList, sessionVars, message, history, user_input,
                 agent, context, submitted, nevents, produced, replies,
                 toolVars>>

\* neither tool branch taken: Runner.run_streamed(agent, history, ...) is
\* given the list as it is now, and the first event is awaited
DispatchGenerative(s, h) ==
  /\ pc[s][h] = "Dispatched"
  /\ ~(agent[s][h] = ItemAgent /\ FindContext(user_input[s][h]) # None)
  /\ agent[s][h] # MonsterAgent
  /\ submitted' = [submitted EXCEPT ![s][h] =
                     [agent |-> agent[s][h], input |-> lists[history[s][h]]]]
  /\ pc' = [pc EXCEPT ![s][h] = "GenerativePath"]
  /\ UNCHANGED <<lists, nextList, sessionVars, message, history, user_input,
                 agent, msg, roll, context, nevents, produced, replies,
                 toolVars>>

\* ToolFinish with the Item branch's `return` missing: the handler goes on
\* to the streamed run
ToolFinishNoReturn(s, h) ==
  /\ pc[s][h] = "ToolPath"
  /\ Reply(s, h)
  /\ pc' = [pc EXCEPT ![s][h] =
              IF agent[s][h] = ItemAgent THEN "GenerativePath" ELSE "Completed"]
  /\ UNCHANGED <<nextList, current_agent, sent, overlapped, message, history,
                 user_input, agent, msg, roll, context, submitted, nevents, produced,
                 toolVars>>

\* after the tool branch's `await msg.update(...)`: the assistant Turn is
\* appended, the history stored, and the handler returns
\* (lines 114-116 and 123-125)
ToolFinish(s, h) ==
  /\ pc[s][h] = "ToolPath"
  /\ Reply(s, h)
  /\ pc' = [pc EXCEPT ![s][h] = "Completed"]
  /\ Return(s, h)
  /\ UNCHANGED <<nextList, current_agent, sent, overlapped, message, msg, toolVars>>

\* StreamToken with the delta put in front of the content
StreamTokenPrepends(content, delta) == <<delta>> \o content

\* msg.stream_token(delta): the delta is added to msg.content
StreamToken(content, delta) == content \o <<delta>>

\* StreamEvent with the delta sent to the caller but not kept in msg.content
StreamEventNoAccumulate(s, h, e) ==
  /\ pc[s][h] = "GenerativePath"
  /\ nevents[s][h] < MaxEvents
  /\ nevents' = [nevents EXCEPT ![s][h] = @ + 1]
  /\ produced' = [produced EXCEPT ![s][h] =
                    IF e.type = "raw_response_event" /\ e.has_delta
                    THEN Append(@, e.delta) ELSE @]
  /\ UNCHANGED <<lists, nextList, sessionVars, pc, message, history, user_input,
                 agent, msg, roll, context, submitted, replies,
                 toolVars>>

\* one turn of `async for event in result.stream_events()`: a raw response
\* event with a delta is forwarded with msg.stream_token, any other is skipped
StreamEvent(s, h, e) ==
  /\ pc[s][h] = "GenerativePath"
  /\ nevents[s][h] < MaxEvents
  /\ nevents' = [nevents EXCEPT ![s][h] = @ + 1]
  /\ produced' = [produced EXCEPT ![s][h] =
                    IF e.type = "raw_response_event" /\ e.has_delta
                    THEN Append(@, e.delta) ELSE @]
  /\ msg' = [msg EXCEPT ![s][h] =
               IF e.type = "raw_response_event" /\ e.has_delta
               THEN StreamToken(@, e.delta) ELSE @]
  /\ UNCHANGED <<lists, nextList, sessionVars, pc, message, history, user_input,
                 agent, roll, context, submitted, replies,
                 toolVars>>

\* StreamEnd with the loop starting the stream over when it is exhausted
StreamEndRestarts(s, h) ==
  /\ pc[s][h] = "GenerativePath"
  /\ nevents' = [nevents EXCEPT ![s][h] = 0]
  /\ produced' = [produced EXCEPT ![s][h] = <<>>]
  /\ msg' = [msg EXCEPT ![s][h] = <<>>]
  /\ UNCHANGED <<lists, nextList, sessionVars, pc, message, history, user_input,
                 agent, roll, context, submitted, replies,
                 toolVars>>

\* the stream ends: the assistant Turn is appended and the history stored
StreamEnd(s, h) ==
  /\ pc[s][h] = "GenerativePath"
  /\ Reply(s, h)
  /\ pc' = [pc EXCEPT ![s][h] = "Completed"]
  /\ Return(s, h)
  /\ UNCHANGED <<nextList, current_agent, sent, overlapped, message, msg, toolVars>>

\* StreamError with the error text added after the streamed text
StreamErrorAppends(s, h, e) ==
  /\ pc[s][h] = "GenerativePath"
  /\ msg' = [msg EXCEPT ![s][h] = @ \o ErrorText(e)]
  /\ pc' = [pc EXCEPT ![s][h] = "Failed"]
  /\ Return(s, h)
  /\ UNCHANGED <<lists, nextList, sessionVars, message, replies, toolVars>>

\* the generation service raises (at the call or while the stream is awaited):
\* the except clause overwrites msg.content with the error text
StreamError(s, h, e) ==
  /\ pc[s][h] = "GenerativePath"
  /\ msg' = [msg EXCEPT ![s][h] = ErrorText(e)]
  /\ pc' = [pc EXCEPT ![s][h] = "Failed"]
  /\ Return(s, h)
  /\ UNCHANGED <<lists, nextList, sessionVars, message, replies, toolVars>>

\* ------------------------------------------------------------------ specification
SessionNext(s) ==
  \/ Start(s)
  \/ \E h \in Handlers, m \in Messages : MainBegin(s, h, m)
  \/ \E h \in Handlers : DispatchItem(s, h)
  \/ \E h \in Handlers : DispatchMonster(s, h)
  \/ \E h \in Handlers : DispatchGenerative(s, h)
  \/ \E h \in Handlers : ToolFinish(s, h)
  \/ \E h \in Handlers :
       \E e \in StreamEvents(Len(produced[s][h])) : StreamEvent(s, h, e)
  \/ \E h \in Handlers : StreamEnd(s, h)
  \/ \E h \in Handlers, e \in Errors : StreamError(s, h, e)

\* one session
Next == SessionNext("s1")

Spec == Init /\ [][Next]_vars

\* the event loop runs every coroutine that is ready: a handler that can take
\* its next step (dispatch, or the end of a tool branch) takes it
Scheduled(s, h) ==
  \/ DispatchItem(s, h)
  \/ DispatchMonster(s, h)
  \/ DispatchGenerative(s, h)
  \/ ToolFinish(s, h)

\* the generation service's stream is finite: it ends or it raises
StreamCloses(s, h) ==
  \/ StreamEnd(s, h)
  \/ \E e \in Errors : StreamError(s, h, e)

FairSpec ==
  /\ Spec
  /\ \A h \in Handlers : WF_vars(Scheduled("s1", h))
  /\ \A h \in Handlers : WF_vars(StreamCloses("s1", h))

\* two sessions side by side: each session sends its messages one after
\* another, and the handlers of the two sessions interleave at their await
\* points
SerialBegin(s, h, m) ==
  /\ sent[s] < MaxMsgsEach
  /\ \A g \in Handlers : ~Active(s, g)
  /\ MainBegin(s, h, m)

SerialSessionNext(s) ==
  \/ Start(s)
  \/ \E h \in Handlers, m \in Messages : SerialBegin(s, h, m)
  \/ \E h \in Handlers : DispatchItem(s, h)
  \/ \E h \in Handlers : DispatchMonster(s, h)
  \/ \E h \in Handlers : DispatchGenerative(s, h)
  \/ \E h \in Handlers : ToolFinish(s, h)
  \/ \E h \in Handlers :
       \E e \in StreamEvents(Len(produced[s][h])) : StreamEvent(s, h, e)
  \/ \E h \in Handlers : StreamEnd(s, h)
  \/ \E h \in Handlers, e \in Errors : StreamError(s, h, e)

TwoSessionsNext == \E s \in Sessions : SerialSessionNext(s)

TwoSessionsSpec == Init /\ [][TwoSessionsNext]_vars

\* ------------------------------------------------------------------ the tools alone
\* keys generate_event is called with: the three areas in lower, upper and
\* mixed case, and keys that are none of them
FOREST   == <<"F", "O", "R", "E", "S", "T">>
Forest   == <<"F", "o", "r", "e", "s", "t">>
DUNGEON  == <<"D", "U", "N", "G", "E", "O", "N">>
dunGeon  == <<"d", "u", "n", "G", "e", "o", "n">>
VILLAGE  == <<"V", "I", "L", "L", "A", "G", "E">>
Village  == <<"V", "i", "l", "l", "a", "g", "e">>
swamp    == <<"s", "w", "a", "m", "p">>
forests  == <<"f", "o", "r", "e", "s", "t", "s">>
the_forest == <<"t", "h", "e", " ", "f", "o", "r", "e", "s", "t">>
Keys ==
  { forest, FOREST, Forest, dungeon, DUNGEON, dunGeon, village, VILLAGE, Village,
    swamp, forests, the_forest, <<>> }

\* a call of generate_event(context) or of roll_dice(sides) is about to be made
ToolsInit ==
  /\ SessionsInit
  /\ tool_result = <<>>
  /\ \/ /\ tool = "generate_event"
        /\ tool_context \in Keys
        /\ tool_sides = 0
     \/ /\ tool = "roll_dice"
        /\ tool_context = <<>>
        /\ tool_sides \in 1..MaxSides

\* return random.choice(events.get(context.lower(), [...]))
ReturnEvent ==
  /\ tool = "generate_event"
  /\ tool_result = <<>>
  /\ \E event \in generate_event(tool_context) : tool_result' = <<event>>
  /\ UNCHANGED <<lists, nextList, sessionVars, localVars, tool, tool_context, tool_sides>>

\* return random.randint(1, sides)
ReturnRoll ==
  /\ tool = "roll_dice"
  /\ tool_result = <<>>
  /\ \E r \in roll_dice(tool_sides) : tool_result' = <<r>>
  /\ UNCHANGED <<lists, nextList, sessionVars, localVars, tool, tool_context, tool_sides>>

ToolsNext == ReturnEvent \/ ReturnRoll

ToolsSpec == ToolsInit /\ [][ToolsNext]_vars

\* ------------------------------------------------------------------ properties
Finished(s, h) == pc[s][h] \in {"Completed", "Failed"}

IsPrefix(a, b) == Len(a) <= Len(b) /\ SubSeq(b, 1, Len(a)) = a

TurnsOf(l, r) == {i \in 1..Len(l) : l[i].role = r}

\* C1: every invocation of main() that has finished, Completed or Failed, has
\* appended exactly one assistant Turn for its player Turn.
C1_EveryTurnAnswered ==
  \A s \in Sessions, h \in Handlers : Finished(s, h) => replies[s][h] = 1

\* C2: when the generation service raised and the turn ended Failed, the
\* session's Conversation holds an assistant Turn whose text is the error text
\* shown, which begins with the error marker.
C2_FailedTurnStored ==
  \A s \in Sessions, h \in Handlers :
    pc[s][h] = "Failed" =>
      \E i \in 1..Len(Conversation(s)) :
        /\ Conversation(s)[i] = AssistantTurn(msg[s][h])
        /\ Conversation(s)[i].content[1] = ErrorMarker

\* C3: in a session whose messages were processed one after another and all
\* answered successfully, the Conversation has two Turns per message, with
\* roles user, assistant, user, assistant, ...
C3_TwoTurnsPerMessage ==
  \A s \in Sessions :
    ( /\ ~overlapped[s]
      /\ answered[s] = sent[s]
      /\ \A h \in Handlers : ~Active(s, h) )
    => /\ Len(Conversation(s)) = 2 * sent[s]
       /\ \A i \in 1..Len(Conversation(s)) :
            Conversation(s)[i].role = IF i % 2 = 1 THEN "user" ELSE "assistant"

C3_Witness ==
  /\ ~overlapped["s1"]
  /\ sent["s1"] = 2
  /\ answered["s1"] = 2
  /\ \A h \in Handlers : ~Active("s1", h)
  /\ Len(Conversation("s1")) = 4

\* C4: at most one invocation of main() of a session is in flight (past its
\* start and before its end) at a time.
C4_OneHandlerAtATime ==
  \A s \in Sessions : Cardinality({h \in Handlers : Active(s, h)}) <= 1

\* C5: when an invocation of main() has finished, Completed or Failed, the
\* session's Conversation contains the player's Turn of that invocation.
C5_PlayerTurnStored ==
  \A s \in Sessions, h \in Handlers :
    Finished(s, h) =>
      \E i \in 1..Len(Conversation(s)) : Conversation(s)[i] = UserTurn(message[s][h])

\* C6: every step leaves the Conversation a session held before the step as a
\* prefix of the Conversation it holds after the step.
C6_AppendOnly ==
  [][\A s \in Sessions : IsPrefix(Conversation(s), Conversation(s)')]_vars

\* C7: no invocation of main() appends more than one assistant Turn, and no
\* list of Turns holds more assistant Turns than player Turns.
C7_AtMostOneReply ==
  /\ \A s \in Sessions, h \in Handlers : replies[s][h] <= 1
  /\ \A l \in ListIds :
       Cardinality(TurnsOf(lists[l], "assistant")) <= Cardinality(TurnsOf(lists[l], "user"))

C7_Witness ==
  \E s \in Sessions :
    /\ \E h \in Handlers : pc[s][h] = "Completed" /\ replies[s][h] = 1
                           /\ Len(msg[s][h]) = 2
                           /\ msg[s][h][1] = "You discover:\n\n"
    /\ \E h \in Handlers : pc[s][h] = "Failed" /\ replies[s][h] = 0

\* the keyword tests of the properties below, on a lower-cased message
CombatKeywords == {attack, defend, monster, fight, battle}
ItemKeywords == {item, chest, reward, loot, inventory}
HasCombatWord(low) == \E w \in CombatKeywords : Contains(low, w)
HasItemWord(low) == \E w \in ItemKeywords : Contains(low, w)
FirstArea(low) ==
  IF Contains(low, forest) THEN forest
  ELSE IF Contains(low, dungeon) THEN dungeon
  ELSE IF Contains(low, village) THEN village
  ELSE None
AreaPool(key) ==
  IF key = forest THEN ForestEvents
  ELSE IF key = dungeon THEN DungeonEvents
  ELSE VillageEvents
Stored(turn) ==
  \E l \in ListIds : \E i \in 1..Len(lists[l]) : lists[l][i] = turn

\* C8: the agent chosen for a message (the choice is made when main() starts
\* and stands when the coroutine first suspends) is the Monster agent when the
\* lower-cased message contains a combat keyword, else the Item agent when it
\* contains an item keyword, else the Narrator; it is one of the three agents
\* and the same for equal messages whatever the history and the agent chosen
\* before.
C8_RoutingByKeyword ==
  \A s \in Sessions, h \in Handlers :
    pc[s][h] = "Dispatched" =>
      LET low == Lower(message[s][h])
      IN  /\ agent[s][h] \in Agents
          /\ agent[s][h] = IF HasCombatWord(low) THEN MonsterAgent
                           ELSE IF HasItemWord(low) THEN ItemAgent
                           ELSE NarratorAgent
          /\ \A t \in Sessions, g \in Handlers :
               (Active(t, g) /\ message[t][g] = message[s][h])
                 => agent[t][g] = agent[s][h]

C8_Witness ==
  \E s \in Sessions, h \in Handlers :
    /\ pc[s][h] = "Dispatched"
    /\ message[s][h] = Fight_loot_forest
    /\ agent[s][h] = MonsterAgent
    /\ current_agent[s] = MonsterAgent
    /\ Len(lists[history[s][h]]) = 3
    /\ lists[history[s][h]][1] = UserTurn(Loot_Village_forest)

\* the number a roll text shows, read back from its digits (0 when the text
\* is not of the form "You rolled a <digits>.\n<outcome>")
DigitValue(c) == CHOOSE d \in 0..9 : DigitChar[d + 1] = c
ShownRoll(text) ==
  IF Len(text) = 4 /\ text[1] = "You rolled a " /\ text[3] = ".\n"
    THEN DigitValue(text[2])
  ELSE IF Len(text) = 5 /\ text[1] = "You rolled a " /\ text[4] = ".\n"
    THEN 10 * DigitValue(text[2]) + DigitValue(text[3])
  ELSE 0

\* C9: on the Monster tool path the roll r is in 1..20 and the text written is
\* "You rolled a r." followed by the critical-hit text iff r > 15, the
\* weak-strike text iff r < 5, and the normal-hit text otherwise; that text is
\* the assistant Turn the completed turn has appended.
C9_OutcomeBands ==
  \A s \in Sessions, h \in Handlers :
    LET tier == msg[s][h][Len(msg[s][h])]
        Banded(r) == /\ r \in 1..20
                     /\ tier \in {CriticalHit, WeakStrike, NormalHit}
                     /\ tier = CriticalHit <=> r > 15
                     /\ tier = WeakStrike <=> r < 5
                     /\ tier = NormalHit <=> (5 <= r /\ r <= 15)
    IN  /\ (agent[s][h] = MonsterAgent /\ pc[s][h] = "ToolPath") =>
             /\ ShownRoll(msg[s][h]) = roll[s][h]
             /\ Banded(roll[s][h])
        /\ (pc[s][h] = "Completed" /\ HasCombatWord(Lower(message[s][h]))) =>
             /\ Banded(ShownRoll(msg[s][h]))
             /\ Stored(AssistantTurn(msg[s][h]))

C9_Witness ==
  \E s \in Sessions :
    /\ \E h \in Handlers :
         /\ pc[s][h] = "Completed"
         /\ msg[s][h] = <<"You rolled a ", "1", "5", ".\n", NormalHit>>
    /\ \E h \in Handlers :
         /\ pc[s][h] = "ToolPath" /\ roll[s][h] = 5
         /\ msg[s][h] = <<"You rolled a ", "5", ".\n", NormalHit>>

\* C10: with the Item agent chosen, the first of forest, dungeon, village (in
\* that order) that the message contains is the context, the text written is
\* "You discover:" with one of that location's events, the generation service
\* is not called and the turn completes with that text as its assistant Turn;
\* when the message contains none of them the turn is on the generative path
\* with the Item agent.
C10_ItemLocationScan ==
  \A s \in Sessions, h \in Handlers :
    LET low == Lower(message[s][h])
        key == FirstArea(low)
        isItem == ~HasCombatWord(low) /\ HasItemWord(low)
    IN  /\ (agent[s][h] = ItemAgent /\ pc[s][h] \in {"ToolPath", "GenerativePath"}) =>
             /\ key # None =>
                  /\ pc[s][h] = "ToolPath"
                  /\ context[s][h] = key
                  /\ \E e \in AreaPool(key) : msg[s][h] = <<"You discover:\n\n", e>>
                  /\ submitted[s][h] = NoCall
             /\ key = None =>
                  /\ pc[s][h] = "GenerativePath"
                  /\ submitted[s][h].agent = ItemAgent
        /\ (Finished(s, h) /\ isItem /\ key # None) =>
             /\ pc[s][h] = "Completed"
             /\ \E e \in AreaPool(key) : msg[s][h] = <<"You discover:\n\n", e>>
             /\ Stored(AssistantTurn(msg[s][h]))

C10_Witness ==
  \E s \in Sessions :
    /\ \E h \in Handlers :
         /\ pc[s][h] = "Completed" /\ message[s][h] = Loot_Village_forest
         /\ msg[s][h][2] \in ForestEvents
    /\ \E h \in Handlers :
         /\ pc[s][h] = "GenerativePath" /\ message[s][h] = open_chest
         /\ submitted[s][h].agent = ItemAgent

\* C11: a turn on a tool path (the dice roll, or the Item branch with a
\* location) has made no call of the generation service and goes from the
\* tool path to Completed only; a call is held only by a turn on the
\* generative path, and a turn becomes Failed only from the generative path,
\* after its call.
C11_ToolPathNeverCallsService ==
  [][\A s \in Sessions, h \in Handlers :
       /\ pc[s][h] = "ToolPath" =>
            /\ submitted[s][h] = NoCall
            /\ submitted'[s][h] = NoCall
            /\ pc'[s][h] \in {"ToolPath", "Completed"}
       /\ submitted'[s][h] # NoCall => pc'[s][h] = "GenerativePath"
       /\ (pc'[s][h] = "Failed" /\ pc[s][h] # "Failed") =>
            /\ pc[s][h] = "GenerativePath"
            /\ submitted[s][h] # NoCall]_vars

C11_Witness ==
  \E s \in Sessions :
    /\ \E h \in Handlers :
         /\ pc[s][h] = "ToolPath"
         /\ submitted[s][h] = NoCall
         /\ msg[s][h][1] = "You rolled a "
    /\ \E h \in Handlers : pc[s][h] = "Failed"

\* C12: when the generation service raises, the handler ends (Failed) with
\* the outbound message holding exactly the error marker and the error's
\* text, whatever had been streamed into it before, and nothing else of the
\* session changes in that step; while the session has messages left to send,
\* the next invocation of main() can start.
C12_ErrorOverwritesAndReturns ==
  /\ [](\A s \in Sessions, h \in Handlers :
          pc[s][h] = "Failed" =>
            /\ \E e \in Errors : msg[s][h] = <<ErrorMarker, e>>
            /\ Free(s, h)
            /\ sent[s] < MaxMsgs =>
                 \E g \in Handlers : ENABLED MainBegin(s, g, open_chest))
  /\ [][\A s \in Sessions, h \in Handlers :
          (pc[s][h] = "GenerativePath" /\ pc'[s][h] = "Failed") =>
            /\ \E e \in Errors : msg'[s][h] = <<ErrorMarker, e>>
            /\ msg[s][h] # <<>> => ~IsPrefix(msg[s][h], msg'[s][h])
            /\ UNCHANGED <<lists, chat_history, current_agent>>]_vars

C12_Witness ==
  \E s \in Sessions, h \in Handlers :
    /\ pc[s][h] = "Failed"
    /\ msg[s][h] = <<ErrorMarker, "service unavailable">>
    /\ sent[s] = 1
    /\ ENABLED MainBegin(s, h, explore_the_dungeon)

\* C13: on the generative path the text the caller has been sent is, at every
\* point, the deltas the generation service has produced so far, in the order
\* produced (a prefix of the service's sequence of deltas); each step of the
\* stream adds the delta of the event it received at the end of the text, or
\* leaves the text alone when the event carries no delta.
C13_FragmentsInOrder ==
  /\ [](\A s \in Sessions, h \in Handlers :
          pc[s][h] = "GenerativePath" =>
            /\ msg[s][h] = produced[s][h]
            /\ IsPrefix(msg[s][h], Deltas))
  /\ [][\A s \in Sessions, h \in Handlers :
          (pc[s][h] = "GenerativePath" /\ pc'[s][h] = "GenerativePath") =>
            \/ msg'[s][h] = msg[s][h]
            \/ msg'[s][h] = Append(msg[s][h], Deltas[Len(msg[s][h]) + 1])]_vars

C13_Witness ==
  \E s \in Sessions, h \in Handlers :
    /\ pc[s][h] = "GenerativePath"
    /\ nevents[s][h] = 2
    /\ msg[s][h] = <<"Once ", "upon ">>

\* C14: in the step that completes a turn, the assistant Turn appended to the
\* history holds exactly what the caller was shown: on the generative path the
\* deltas forwarded during the turn, in order; on a tool path the one text
\* written to the outbound message.  The history with that Turn as its last
\* is the session's Conversation after the step, and the outbound message
\* still shows that text.
C14_StoredEqualsShown ==
  [][\A s \in Sessions, h \in Handlers :
       (pc[s][h] \in {"ToolPath", "GenerativePath"} /\ pc'[s][h] = "Completed") =>
         LET shown == IF pc[s][h] = "GenerativePath" THEN produced[s][h]
                      ELSE msg[s][h]
         IN  /\ msg'[s][h] = shown
             /\ lists'[history[s][h]] =
                  Append(lists[history[s][h]], AssistantTurn(shown))
             /\ Conversation(s)' = lists'[history[s][h]]]_vars

C14_Witness ==
  \E s \in Sessions, h \in Handlers :
    /\ pc[s][h] = "Completed"
    /\ msg[s][h] = <<"Once ", "upon ">>
    /\ Len(Conversation(s)) = 4
    /\ Conversation(s)[4] = AssistantTurn(<<"Once ", "upon ">>)
    /\ \E e \in ForestEvents : Conversation(s)[2] = AssistantTurn(DiscoverText(e))

\* C15: a step of one session, whatever its path, leaves every other
\* session's stored list reference, Conversation (the Turns of the list it
\* stores and of every list its handlers hold) and selected agent unchanged.
C15_SessionsIndependent ==
  [][\A a \in Sessions :
       SerialSessionNext(a) =>
         \A b \in Sessions \ {a} :
           /\ chat_history'[b] = chat_history[b]
           /\ Conversation(b)' = Conversation(b)
           /\ current_agent'[b] = current_agent[b]
           /\ \A h \in Handlers :
                history[b][h] # 0 =>
                  lists'[history[b][h]] = lists[history[b][h]]]_vars

C15_Witness ==
  /\ pc["s1"]["h1"] = "Failed"
  /\ current_agent["s1"] = ItemAgent
  /\ Len(Conversation("s1")) = 0
  /\ pc["s2"]["h1"] = "Completed"
  /\ current_agent["s2"] = MonsterAgent
  /\ Len(Conversation("s2")) = 2
  /\ chat_history["s2"] < chat_history["s1"]

\* C16: generate_event returns for every key: for a key whose lower-case form
\* is forest, dungeon or village the result is one of that area's events (the
\* same candidates whatever the case of the key), and for every other key it
\* is the text "Nothing unusual happens...".
C16_EventTableTotal ==
  tool = "generate_event" =>
    /\ tool_result = <<>> => ENABLED ReturnEvent
    /\ tool_result # <<>> =>
         LET low == Lower(tool_context)
         IN  /\ low = forest => tool_result[1] \in ForestEvents
             /\ low = dungeon => tool_result[1] \in DungeonEvents
             /\ low = village => tool_result[1] \in VillageEvents
             /\ low \notin {forest, dungeon, village} =>
                  tool_result[1] = "Nothing unusual happens..."
    /\ \A k \in Keys :
         Lower(k) = Lower(tool_context) => generate_event(k) = generate_event(tool_context)

C16_Witness ==
  /\ tool = "generate_event"
  /\ tool_context = FOREST
  /\ tool_result = <<"You find an ancient tree with glowing runes.">>

\* C17: for every number of sides s >= 1, roll_dice(s) returns, and what it
\* returns is at least 1 and at most s; with the default of 20 sides the
\* result is in 1..20 and in exactly one of the three bands (above 15, below
\* 5, 5 to 15) that pick the outcome text.
C17_RollInRange ==
  tool = "roll_dice" =>
    /\ tool_sides >= 1
    /\ tool_result = <<>> => ENABLED ReturnRoll
    /\ tool_result # <<>> =>
         LET r == tool_result[1]
         IN  /\ 1 <= r /\ r <= tool_sides
             /\ tool_sides = DefaultSides =>
                  /\ r \in 1..20
                  /\ Cardinality({b \in {"critical", "weak", "normal"} :
                       \/ b = "critical" /\ r > 15
                       \/ b = "weak" /\ r < 5
                       \/ b = "normal" /\ 5 <= r /\ r <= 15}) = 1
                  /\ Outcome(r) = CriticalHit <=> r > 15
                  /\ Outcome(r) = WeakStrike <=> r < 5

C17_Witness ==
  /\ tool = "roll_dice"
  /\ tool_sides = DefaultSides
  /\ tool_result = <<20>>

\* C18: with every ready coroutine scheduled and the generation service's
\* stream finite, every invocation of main() that has started leaves
\* Dispatched and ends Completed or Failed; an invocation on a tool path ends
\* Completed.
C18_EveryTurnTerminates ==
  \A h \in Handlers :
    /\ Active("s1", h) ~> Finished("s1", h)
    /\ (pc["s1"][h] = "ToolPath") ~> (pc["s1"][h] = "Completed")

C18_Witness ==
  /\ pc["s1"]["h1"] = "Completed"
  /\ msg["s1"]["h1"] = <<"Once ">>
  /\ pc["s1"]["h2"] = "Failed"
  /\ sent["s1"] = 2

\* C19: generate_event is called in a turn (a context is set, the text
\* "You discover:" with an event is written) only if the lower-cased message
\* contains an item keyword, no combat keyword and one of the locations.  The
\* message "explore the dungeon" goes to the Narrator on the generative path,
\* and "Fight loot forest" to the dice roll, neither with a call of
\* generate_event.
C19_EventTableOnlyForItems ==
  \A s \in Sessions, h \in Handlers :
    LET invoked == Len(msg[s][h]) = 2 /\ msg[s][h][1] = "You discover:\n\n"
    IN  /\ (pc[s][h] \in {"ToolPath", "Completed"} /\ invoked) =>
             LET low == Lower(message[s][h])
             IN  HasItemWord(low) /\ ~HasCombatWord(low) /\ FirstArea(low) # None
        /\ context[s][h] # None =>
             pc[s][h] = "ToolPath" /\ invoked /\ agent[s][h] = ItemAgent
        /\ (message[s][h] = explore_the_dungeon /\ pc[s][h] # "Idle") =>
             /\ ~invoked
             /\ pc[s][h] # "ToolPath"
             /\ Active(s, h) => agent[s][h] = NarratorAgent
             /\ pc[s][h] = "GenerativePath" => submitted[s][h].agent = NarratorAgent
        /\ (message[s][h] = Fight_loot_forest /\ pc[s][h] # "Idle") =>
             /\ ~invoked
             /\ pc[s][h] \in {"Dispatched", "ToolPath", "Completed"}
             /\ pc[s][h] # "Dispatched" => msg[s][h][1] = "You rolled a "

C19_Witness ==
  \E s \in Sessions :
    /\ \E h \in Handlers :
         /\ message[s][h] = explore_the_dungeon
         /\ pc[s][h] = "GenerativePath"
         /\ submitted[s][h].agent = NarratorAgent
         /\ context[s][h] = None
    /\ \E h \in Handlers :
         /\ message[s][h] = Fight_loot_forest
         /\ pc[s][h] = "ToolPath"
         /\ roll[s][h] = 17
         /\ context[s][h] = None

\* C20: in the step that calls the generation service, the history submitted
\* is the session's Conversation as it is at that moment (with the player Turn
\* of the message being handled added, when the Conversation stored does not
\* hold it yet), its last Turn is that player Turn, and it holds fewer
\* assistant Turns than player Turns (none answers the current message).
C20_SubmittedHistory ==
  [][\A s \in Sessions, h \in Handlers :
       (submitted[s][h] = NoCall /\ submitted'[s][h] # NoCall) =>
         LET input == submitted'[s][h].input
         IN  /\ input \in {Conversation(s),
                           Append(Conversation(s), UserTurn(message[s][h]))}
             /\ input # <<>>
             /\ input[Len(input)] = UserTurn(message[s][h])
             /\ Cardinality(TurnsOf(input, "assistant")) <
                  Cardinality(TurnsOf(input, "user"))]_vars

====
